---- MODULE Spec2Model ----
(***************************************************************************)
(* A model of webrtl: the BLIF parser (src/src/config.rs), the element     *)
(* data model with its exec operations, and the Signal Store STATE, a      *)
(* process-wide Mutex<HashMap<String, u8>>.                                *)
(*                                                                         *)
(* Text is modelled by TLA+ strings, one character per position, and the   *)
(* nom combinators the grammar is written with are modelled by what they   *)
(* do on the characters.  The macros of the grammar (tag!, is_not!, is_a!, *)
(* take_until!, one_of!) are nom's streaming parsers: at the end of the    *)
(* input they answer Incomplete, not Error (the source wraps one of them   *)
(* in complete! where it wants an Error).  newline and alphanumeric1 are   *)
(* imported from character::complete.                                      *)
(***************************************************************************)
EXTENDS Integers, Sequences, FiniteSets, TLC

\* ------------------------------------------------------------------------
\* Bounds of the model
\* ------------------------------------------------------------------------
MaxChunks == 4
MaxElems == 1
MaxIndex == 2
MaxFrame == 3
MaxCallers == 2

\* ------------------------------------------------------------------------
\* Characters and strings
\* ------------------------------------------------------------------------
\* Bind(v, F) is F(v) with v evaluated once, the way a Rust `let` binds the
\* value of its right-hand side
Bind(v, F(_)) == CHOOSE y \in {F(x) : x \in {v}} : TRUE

NL == "\n"

Min(a, b) == IF a < b THEN a ELSE b

Take(i, n) == SubSeq(i, 1, n)

Drop(i, n) == SubSeq(i, n + 1, Len(i))

Ch(i, k) == SubSeq(i, k, k)

AlnumChars ==
    {"a", "b", "c", "d", "e", "f", "g", "h", "i", "j", "k", "l", "m",
     "n", "o", "p", "q", "r", "s", "t", "u", "v", "w", "x", "y", "z",
     "A", "B", "C", "D", "E", "F", "G", "H", "I", "J", "K", "L", "M",
     "N", "O", "P", "Q", "R", "S", "T", "U", "V", "W", "X", "Y", "Z",
     "0", "1", "2", "3", "4", "5", "6", "7", "8", "9"}

\* the position of the first character of i, from position k on, for which
\* (character \in S) = want; 0 when there is none
RECURSIVE FindFrom(_, _, _, _)
FindFrom(i, k, S, want) ==
    IF k > Len(i) THEN 0
    ELSE IF (Ch(i, k) \in S) = want THEN k
    ELSE FindFrom(i, k + 1, S, want)

\* ------------------------------------------------------------------------
\* nom results: k is "ok", "err" (Err::Error), "inc" (Err::Incomplete) or
\* "panic" (a Rust panic inside the parser's result expression)
\* ------------------------------------------------------------------------
POk(rest, out) == [k |-> "ok", rest |-> rest, out |-> out]

PErr(i) == [k |-> "err", rest |-> i, out |-> ""]

PInc(i) == [k |-> "inc", rest |-> i, out |-> ""]

\* tag!: nom::bytes::streaming::tag
tag(t, i) ==
    LET n == Min(Len(i), Len(t))
    IN  IF Take(i, n) # Take(t, n) THEN PErr(i)
        ELSE IF Len(i) < Len(t) THEN PInc(i)
        ELSE POk(Drop(i, Len(t)), t)

\* split_at_position1 of the streaming parsers: the longest non-empty prefix
\* before the first character p, where p is the first with (p \in S) = want
split1_streaming(i, S, want) ==
    Bind(FindFrom(i, 1, S, want), LAMBDA p :
    IF p = 0 THEN PInc(i)
    ELSE IF p = 1 THEN PErr(i)
    ELSE POk(Drop(i, p - 1), Take(i, p - 1)))

\* is_not!: nom::bytes::streaming::is_not
is_not(S, i) == split1_streaming(i, S, TRUE)

\* is_a!: nom::bytes::streaming::is_a
is_a(S, i) == split1_streaming(i, S, FALSE)

\* nom::character::complete::alphanumeric1
alphanumeric1(i) ==
    Bind(FindFrom(i, 1, AlnumChars, FALSE), LAMBDA p :
    IF p = 1 THEN PErr(i)
    ELSE IF p = 0 THEN (IF Len(i) = 0 THEN PErr(i) ELSE POk("", i))
    ELSE POk(Drop(i, p - 1), Take(i, p - 1)))

\* nom::character::complete::newline
newline(i) ==
    IF Len(i) > 0 /\ Ch(i, 1) = NL THEN POk(Drop(i, 1), NL) ELSE PErr(i)

\* take_until!("\n"): nom::bytes::streaming::take_until
take_until_nl(i) ==
    Bind(FindFrom(i, 1, {NL}, TRUE), LAMBDA p :
    IF p = 0 THEN PInc(i) ELSE POk(Drop(i, p - 1), Take(i, p - 1)))

\* one_of!: nom::character::streaming::one_of
one_of(S, i) ==
    IF Len(i) = 0 THEN PInc(i)
    ELSE IF Ch(i, 1) \in S THEN POk(Drop(i, 1), Ch(i, 1))
    ELSE PErr(i)

\* complete!: Incomplete becomes Error
complete(r) ==
    Bind(r, LAMBDA x : IF x.k = "inc" THEN PErr(x.rest) ELSE x)

\* separated_list0!(sep, f): f is "is_not" (is_not!(" \n")), "alnum"
\* (alphanumeric1) or "row" (is_a!(" 01-")); out is the list of items
sepItem(f, i) ==
    CASE f = "is_not" -> is_not({" ", NL}, i)
      [] f = "alnum" -> alphanumeric1(i)
      [] f = "row" -> is_a({" ", "0", "1", "-"}, i)

RECURSIVE sepLoop(_, _, _, _)
sepLoop(sep, f, i, acc) ==
    Bind(tag(sep, i), LAMBDA s :
    IF s.k = "err" THEN POk(i, acc)
    ELSE IF s.k # "ok" THEN [k |-> s.k, rest |-> i, out |-> acc] ELSE
    Bind(sepItem(f, s.rest), LAMBDA r :
    IF r.k = "err" THEN POk(i, acc)
    ELSE IF r.k # "ok" THEN [k |-> r.k, rest |-> i, out |-> acc]
    ELSE sepLoop(sep, f, r.rest, Append(acc, r.out))))

separated_list0(sep, f, i) ==
    Bind(sepItem(f, i), LAMBDA r :
    IF r.k = "err" THEN POk(i, <<>>)
    ELSE IF r.k # "ok" THEN [k |-> r.k, rest |-> i, out |-> <<>>]
    ELSE sepLoop(sep, f, r.rest, <<r.out>>))

\* ------------------------------------------------------------------------
\* The Signal Store.  st = [STATE |-> the map, poisoned |-> whether a thread
\* has panicked while it held the guard of STATE's mutex]
\* ------------------------------------------------------------------------
Put(S, n, v) == [k \in DOMAIN S \cup {n} |-> IF k = n THEN v ELSE S[k]]

EmptyMap == [k \in {} |-> 0]

RFault(st) == [res |-> "fault", st |-> st, out |-> 0]

ROk(st, out) == [res |-> "ok", st |-> st, out |-> out]

Poison(st) == [st EXCEPT !.poisoned = TRUE]

\* a lock that recovers the guard of a poisoned mutex
lock_into_inner(st) == TRUE

\* STATE.lock().unwrap() gives the guard unless the mutex is poisoned
lock_unwrap(st) == ~st.poisoned

\* Var::new: locks and inserts (name, 0)
Var_new(st, n) ==
    IF ~lock_unwrap(st) THEN RFault(st)
    ELSE ROk([st EXCEPT !.State = Put(@, n, 0)], n)

\* names.map(|x| Var::new(x)).collect(), in order
RECURSIVE Vars_new(_, _)
Vars_new(st, names) ==
    IF names = <<>> THEN ROk(st, <<>>)
    ELSE Bind(Var_new(st, Head(names)), LAMBDA r :
         IF r.res = "fault" THEN r ELSE
         Bind(Vars_new(r.st, Tail(names)), LAMBDA q :
         IF q.res = "fault" THEN q
         ELSE ROk(q.st, <<r.out>> \o q.out)))

\* ------------------------------------------------------------------------
\* LUT
\* ------------------------------------------------------------------------
\* str::split_whitespace on a line
RECURSIVE split_whitespace(_, _, _)
split_whitespace(line, cur, acc) ==
    IF Len(line) = 0 THEN (IF cur = "" THEN acc ELSE Append(acc, cur))
    ELSE IF Head(line) \in {" ", NL}
         THEN split_whitespace(Tail(line), "",
                               IF cur = "" THEN acc ELSE Append(acc, cur))
         ELSE split_whitespace(Tail(line), cur \o Head(line), acc)

\* char::to_digit(radix): -1 stands for None
DigitVal(c) ==
    CASE c = "0" -> 0 [] c = "1" -> 1 [] c = "2" -> 2 [] c = "3" -> 3
      [] c = "4" -> 4 [] c = "5" -> 5 [] c = "6" -> 6 [] c = "7" -> 7
      [] c = "8" -> 8 [] c = "9" -> 9 [] OTHER -> -1

to_digit(c, radix) ==
    LET d == DigitVal(c) IN IF d >= 0 /\ d < radix THEN d ELSE -1

\* kv[0].chars().map(|c| c.to_digit(2).unwrap() as u8).collect():
\* <<-1>> stands for the panic of unwrap
RECURSIVE row_key(_)
row_key(tok) ==
    IF Len(tok) = 0 THEN <<>>
    ELSE Bind(to_digit(Head(tok), 2), LAMBDA d :
         Bind(row_key(Tail(tok)), LAMBDA r :
         IF d < 0 \/ r = <<-1>> THEN <<-1>> ELSE <<d>> \o r))

\* the digits of an unsigned binary literal: -1 when there is none or one of
\* them is not a binary digit
RECURSIVE bin_value(_, _)
bin_value(tok, acc) ==
    IF Len(tok) = 0 THEN acc
    ELSE Bind(to_digit(Head(tok), 2), LAMBDA d :
         IF d < 0 THEN -1 ELSE bin_value(Tail(tok), 2 * acc + d))

\* isize::from_str_radix(tok, 2).unwrap() as u8: -1 stands for the panic
row_value(tok) ==
    LET signed == Len(tok) > 0 /\ Head(tok) \in {"-", "+"}
        digits == IF signed THEN Tail(tok) ELSE tok
    IN  Bind(IF Len(digits) = 0 THEN -1 ELSE bin_value(digits, 0), LAMBDA v :
        IF v < 0 THEN -1
        ELSE IF signed /\ Head(tok) = "-" THEN (0 - v) % 256
        ELSE v % 256)

\* the loop of LUT::new over the rows; res is "fault" when a row panics
RECURSIVE LUT_new_rows(_, _)
LUT_new_rows(rows, m) ==
    IF rows = <<>> THEN [res |-> "ok", out |-> m]
    ELSE Bind(split_whitespace(Head(rows), "", <<>>), LAMBDA kv :
         IF Len(kv) < 1 THEN [res |-> "fault", out |-> m] ELSE
         Bind(row_key(kv[1]), LAMBDA key :
         IF key = <<-1>> \/ Len(kv) < 2
         THEN [res |-> "fault", out |-> m] ELSE
         Bind(row_value(kv[2]), LAMBDA v :
         IF v < 0 THEN [res |-> "fault", out |-> m]
         ELSE LUT_new_rows(Tail(rows), Put(m, key, v)))))

\* LUT::new
LUT_new(st, inputs, output, rows) ==
    Bind(Vars_new(st, inputs \o <<output>>), LAMBDA vs :
    IF vs.res = "fault" THEN vs ELSE
    Bind(LUT_new_rows(rows, EmptyMap), LAMBDA m :
    IF m.res = "fault" THEN RFault(vs.st)
    ELSE ROk(vs.st, [kind |-> "LUT", inputs |-> inputs,
                     output |-> output, mappings |-> m.out])))

\* a read that takes 0 for a missing key
LUT_exec_read_or_default(st, name) ==
    IF ~lock_unwrap(st) THEN RFault(st)
    ELSE IF name \in DOMAIN st.State THEN ROk(st, st.State[name])
    ELSE ROk(st, 0)

\* one iteration of the loop of LUT::exec: the lock, the read of one input,
\* the panic while the guard is held when the key is missing
LUT_exec_read(st, name) ==
    IF ~lock_unwrap(st) THEN RFault(st)
    ELSE IF name \in DOMAIN st.State THEN ROk(st, st.State[name])
    ELSE RFault(Poison(st))

\* a write that resets the output when no row matches
LUT_exec_write_reset(st, lut, signals) ==
    IF ~lock_unwrap(st) THEN RFault(st)
    ELSE ROk([st EXCEPT !.State =
                  Put(@, lut.output,
                      IF signals \in DOMAIN lut.mappings
                      THEN lut.mappings[signals] ELSE 0)], 0)

\* the match on self.mappings.get(&signals) of LUT::exec
LUT_exec_write(st, lut, signals) ==
    IF signals \in DOMAIN lut.mappings
    THEN IF ~lock_unwrap(st) THEN RFault(st)
         ELSE ROk([st EXCEPT !.State =
                       Put(@, lut.output, lut.mappings[signals])], 0)
    ELSE ROk(st, 0)

RECURSIVE LUT_exec_reads(_, _, _)
LUT_exec_reads(st, names, signals) ==
    IF names = <<>> THEN ROk(st, signals)
    ELSE Bind(LUT_exec_read(st, Head(names)), LAMBDA r :
         IF r.res = "fault" THEN r
         ELSE LUT_exec_reads(r.st, Tail(names), Append(signals, r.out)))

\* LUT::exec
LUT_exec(st, lut) ==
    Bind(LUT_exec_reads(st, lut.inputs, <<>>), LAMBDA r :
    IF r.res = "fault" THEN r ELSE LUT_exec_write(r.st, lut, r.out))

\* ------------------------------------------------------------------------
\* Register
\* ------------------------------------------------------------------------
NoClock == <<>>

NoInit == ""

\* a constructor that keeps the control name without registering it
Register_new_control_unregistered(st, input, output, clock, init) ==
    LET signal == IF clock = NoClock THEN "re" ELSE clock[1]
        control == IF clock = NoClock THEN "NIL" ELSE clock[2]
        start == IF init = NoInit THEN 3 ELSE to_digit(init, 10)
    IN  IF start < 0 THEN RFault(st)
        ELSE Bind(Vars_new(st, <<input, output>>), LAMBDA vs :
             IF vs.res = "fault" THEN vs
             ELSE ROk(vs.st, [kind |-> "Register", input |-> input,
                              output |-> output, signal |-> signal,
                              control |-> control, init |-> start]))

\* Register::new: clock is NoClock or <<signal, control>>, init is NoInit or
\* a character
Register_new(st, input, output, clock, init) ==
    LET signal == IF clock = NoClock THEN "re" ELSE clock[1]
        control == IF clock = NoClock THEN "NIL" ELSE clock[2]
        start == IF init = NoInit THEN 3 ELSE to_digit(init, 10)
    IN  IF start < 0 THEN RFault(st)
        ELSE Bind(Vars_new(st, <<input, output, control>>), LAMBDA vs :
             IF vs.res = "fault" THEN vs
             ELSE ROk(vs.st, [kind |-> "Register", input |-> input,
                              output |-> output, signal |-> signal,
                              control |-> control, init |-> start]))

\* a read of the output's value in place of the input's
Register_exec_read_output(st, reg) ==
    IF ~lock_unwrap(st) THEN RFault(st)
    ELSE IF reg.output \in DOMAIN st.State THEN ROk(st, st.State[reg.output])
    ELSE RFault(Poison(st))

\* the first statement of Register::exec
Register_exec_read(st, reg) ==
    IF ~lock_unwrap(st) THEN RFault(st)
    ELSE IF reg.input \in DOMAIN st.State THEN ROk(st, st.State[reg.input])
    ELSE RFault(Poison(st))

\* a copy gated by the control signal
Register_exec_write_gated(st, reg, i) ==
    IF ~lock_unwrap(st) THEN RFault(st)
    ELSE IF reg.control \in DOMAIN st.State /\ st.State[reg.control] = 1
         THEN ROk([st EXCEPT !.State = Put(@, reg.output, i)], 0)
    ELSE ROk(st, 0)

\* the second statement of Register::exec
Register_exec_write(st, reg, i) ==
    IF ~lock_unwrap(st) THEN RFault(st)
    ELSE ROk([st EXCEPT !.State = Put(@, reg.output, i)], 0)

\* Register::exec
Register_exec(st, reg) ==
    Bind(Register_exec_read(st, reg), LAMBDA r :
    IF r.res = "fault" THEN r ELSE Register_exec_write(r.st, reg, r.out))

\* ------------------------------------------------------------------------
\* Accessors of util.rs
\* ------------------------------------------------------------------------
\* get!
get(st, var) ==
    IF ~lock_unwrap(st) THEN RFault(st)
    ELSE IF var \in DOMAIN st.State THEN ROk(st, st.State[var])
    ELSE RFault(Poison(st))

\* a write that inserts the key when it is missing
set_or_insert(st, var, val) ==
    IF ~lock_unwrap(st) THEN RFault(st)
    ELSE ROk([st EXCEPT !.State = Put(@, var, val)], 0)

\* set
set(st, var, val) ==
    IF ~lock_unwrap(st) THEN RFault(st)
    ELSE IF var \in DOMAIN st.State
         THEN ROk([st EXCEPT !.State = Put(@, var, val)], 0)
    ELSE RFault(Poison(st))

\* usize's Display: the decimal digits
DigitChar(d) ==
    CASE d = 0 -> "0" [] d = 1 -> "1" [] d = 2 -> "2" [] d = 3 -> "3"
      [] d = 4 -> "4" [] d = 5 -> "5" [] d = 6 -> "6" [] d = 7 -> "7"
      [] d = 8 -> "8" [] d = 9 -> "9"

RECURSIVE usize_to_string(_)
usize_to_string(n) ==
    IF n < 10 THEN DigitChar(n)
    ELSE usize_to_string(n \div 10) \o DigitChar(n % 10)

\* format!("{}[{}]", var, b)
format_index(var, b) == var \o "[" \o usize_to_string(b) \o "]"

\* the keys name[lo] .. name[hi-1]
RangeKeys(var, lo, hi) == {format_index(var, b) : b \in lo..(hi - 1)}

\* the loop of get_n_to_m, under the one guard s taken before it: a missing
\* key panics while the guard is held
RECURSIVE get_n_to_m_loop(_, _, _, _, _)
get_n_to_m_loop(st, var, b, m, out) ==
    IF b >= m THEN ROk(st, out)
    ELSE IF format_index(var, b) \in DOMAIN st.State
    THEN get_n_to_m_loop(st, var, b + 1, m,
                         Append(out, st.State[format_index(var, b)]))
    ELSE [res |-> "fault", st |-> Poison(st), out |-> <<>>]

\* get_n_to_m
get_n_to_m(st, var, n, m) ==
    IF ~lock_unwrap(st) THEN [res |-> "fault", st |-> st, out |-> <<>>]
    ELSE get_n_to_m_loop(st, var, n, m, <<>>)

\* set_n
set_n(st, var, n, val) == set(st, format_index(var, n), val)

\* the index written by iteration j (from 0) of the loop of set_n_to_m
set_n_to_m_index(n, m, j) == n + j

\* a body that writes val[b] in place of val[b-n]
set_n_to_m_step_unshifted(st, var, n, b, val) ==
    IF b + 1 > Len(val) THEN RFault(st)
    ELSE set(st, format_index(var, b), val[b + 1])

\* the body of the loop of set_n_to_m for index b: val[b-n] is evaluated
\* first (a panic when val is too short), then the lock is taken and the
\* key written
set_n_to_m_step(st, var, n, b, val) ==
    IF b - n + 1 > Len(val) THEN RFault(st)
    ELSE set(st, format_index(var, b), val[b - n + 1])

RECURSIVE set_n_to_m_loop(_, _, _, _, _, _)
set_n_to_m_loop(st, var, n, m, j, val) ==
    IF n + j >= m THEN ROk(st, 0)
    ELSE Bind(set_n_to_m_step(st, var, n, set_n_to_m_index(n, m, j), val),
              LAMBDA r :
         IF r.res = "fault" THEN r
         ELSE set_n_to_m_loop(r.st, var, n, m, j + 1, val))

\* set_n_to_m
set_n_to_m(st, var, n, m, val) == set_n_to_m_loop(st, var, n, m, 0, val)

\* ------------------------------------------------------------------------
\* The grammar.  A parser that builds Variables takes the store and gives
\* back the store as the Var::new calls of its result expression left it.
\* ------------------------------------------------------------------------
PR(k, rest, out, st) == [k |-> k, rest |-> rest, out |-> out, st |-> st]

PFail(k, st) == [k |-> k, rest |-> "", out |-> <<>>, st |-> st]

\* get_model_name
get_model_name(i) ==
    Bind(tag(".model ", i), LAMBDA t :
    IF t.k # "ok" THEN t ELSE
    Bind(is_not({" ", NL}, t.rest), LAMBDA n :
    IF n.k # "ok" THEN n ELSE
    Bind(newline(n.rest), LAMBDA l :
    IF l.k # "ok" THEN l ELSE POk(l.rest, n.out))))

\* the body shared by get_inputs and get_outputs: alt!(tag!(word ++ " ") |
\* tag!(word)), the list of names, the newline, then Var::new on each name
var_line(word, i, st) ==
    Bind(tag(word \o " ", i), LAMBDA a1 :
    Bind(IF a1.k = "err" THEN tag(word, i) ELSE a1, LAMBDA a :
    IF a.k # "ok" THEN PFail(a.k, st) ELSE
    Bind(separated_list0(" ", "is_not", a.rest), LAMBDA l :
    IF l.k # "ok" THEN PFail(l.k, st) ELSE
    Bind(newline(l.rest), LAMBDA n :
    IF n.k # "ok" THEN PFail(n.k, st) ELSE
    Bind(Vars_new(st, l.out), LAMBDA vs :
    IF vs.res = "fault" THEN PFail("panic", vs.st)
    ELSE PR("ok", n.rest, vs.out, vs.st))))))

\* get_inputs
get_inputs(i, st) == var_line(".inputs", i, st)

\* get_outputs
get_outputs(i, st) == var_line(".outputs", i, st)

\* get_lut
get_lut(i, st) ==
    Bind(tag(".names ", i), LAMBDA t :
    IF t.k # "ok" THEN PFail(t.k, st) ELSE
    Bind(separated_list0(" ", "alnum", t.rest), LAMBDA io :
    IF io.k # "ok" THEN PFail(io.k, st) ELSE
    Bind(newline(io.rest), LAMBDA n1 :
    IF n1.k # "ok" THEN PFail(n1.k, st) ELSE
    Bind(separated_list0(NL, "row", n1.rest), LAMBDA lut :
    IF lut.k # "ok" THEN PFail(lut.k, st) ELSE
    Bind(newline(lut.rest), LAMBDA n2 :
    IF n2.k # "ok" THEN PFail(n2.k, st)
    ELSE IF Len(io.out) = 0 THEN PFail("panic", st) ELSE
    Bind(LUT_new(st, SubSeq(io.out, 1, Len(io.out) - 1),
                 io.out[Len(io.out)], lut.out), LAMBDA r :
    IF r.res = "fault" THEN PFail("panic", r.st)
    ELSE PR("ok", n2.rest, r.out, r.st)))))))

ClockSignals == <<"fe", "re", "ah", "al", "as">>

\* alt!(tag!("fe") | tag!("re") | tag!("ah") | tag!("al") | tag!("as"))
RECURSIVE alt_tags(_, _)
alt_tags(tags, i) ==
    IF tags = <<>> THEN PErr(i)
    ELSE Bind(tag(Head(tags), i), LAMBDA r :
         IF r.k = "err" THEN alt_tags(Tail(tags), i) ELSE r)

\* a clock that knows the two edge names only
get_clock_edges_only(i) ==
    Bind(tag(" ", i), LAMBDA s1 :
    IF s1.k # "ok" THEN s1 ELSE
    Bind(alt_tags(<<"fe", "re">>, s1.rest), LAMBDA sig :
    IF sig.k # "ok" THEN sig ELSE
    Bind(tag(" ", sig.rest), LAMBDA s2 :
    IF s2.k # "ok" THEN s2 ELSE
    Bind(is_not({" ", NL}, s2.rest), LAMBDA c :
    IF c.k # "ok" THEN c
    ELSE POk(c.rest, <<sig.out, c.out>>)))))

\* get_clock
get_clock(i) ==
    Bind(tag(" ", i), LAMBDA s1 :
    IF s1.k # "ok" THEN s1 ELSE
    Bind(alt_tags(ClockSignals, s1.rest), LAMBDA sig :
    IF sig.k # "ok" THEN sig ELSE
    Bind(tag(" ", sig.rest), LAMBDA s2 :
    IF s2.k # "ok" THEN s2 ELSE
    Bind(is_not({" ", NL}, s2.rest), LAMBDA c :
    IF c.k # "ok" THEN c
    ELSE POk(c.rest, <<sig.out, c.out>>)))))

\* opt!: an Error becomes None (out = none) and consumes nothing
opt(r, i, none) ==
    Bind(r, LAMBDA x : IF x.k = "err" THEN POk(i, none) ELSE x)

\* get_reg
get_reg(i, st) ==
    Bind(tag(".latch ", i), LAMBDA t :
    IF t.k # "ok" THEN PFail(t.k, st) ELSE
    Bind(is_not({" ", NL}, t.rest), LAMBDA input :
    IF input.k # "ok" THEN PFail(input.k, st) ELSE
    Bind(tag(" ", input.rest), LAMBDA s :
    IF s.k # "ok" THEN PFail(s.k, st) ELSE
    Bind(is_not({" ", NL}, s.rest), LAMBDA output :
    IF output.k # "ok" THEN PFail(output.k, st) ELSE
    Bind(opt(get_clock(output.rest), output.rest, NoClock), LAMBDA clock :
    IF clock.k # "ok" THEN PFail(clock.k, st) ELSE
    Bind(opt(complete(tag(" ", clock.rest)), clock.rest, ""), LAMBDA sp :
    IF sp.k # "ok" THEN PFail(sp.k, st) ELSE
    Bind(opt(one_of({"0", "1", "2", "3"}, sp.rest), sp.rest, NoInit),
         LAMBDA init :
    IF init.k # "ok" THEN PFail(init.k, st) ELSE
    Bind(newline(init.rest), LAMBDA n :
    IF n.k # "ok" THEN PFail(n.k, st) ELSE
    Bind(Register_new(st, input.out, output.out, clock.out, init.out),
         LAMBDA r :
    IF r.res = "fault" THEN PFail("panic", r.st)
    ELSE PR("ok", n.rest, r.out, r.st))))))))))

\* alt!(get_lut | get_reg)
get_element(i, st) ==
    Bind(get_lut(i, st), LAMBDA l :
    IF l.k = "err" THEN get_reg(i, l.st) ELSE l)

\* many0!(alt!(get_lut | get_reg))
RECURSIVE many0_elements(_, _, _)
many0_elements(i, st, acc) ==
    Bind(get_element(i, st), LAMBDA e :
    IF e.k = "err" THEN PR("ok", i, acc, e.st)
    ELSE IF e.k # "ok" THEN PFail(e.k, e.st)
    ELSE many0_elements(e.rest, e.st, Append(acc, e.out)))

\* Model::new
Model_new(name, inputs, outputs, elements) ==
    [name |-> name, inputs |-> inputs, outputs |-> outputs,
     elements |-> elements]

\* get_model
get_model(i, st) ==
    Bind(get_model_name(i), LAMBDA name :
    IF name.k # "ok" THEN PFail(name.k, st) ELSE
    Bind(get_inputs(name.rest, st), LAMBDA inputs :
    IF inputs.k # "ok" THEN PFail(inputs.k, inputs.st) ELSE
    Bind(get_outputs(inputs.rest, inputs.st), LAMBDA outputs :
    IF outputs.k # "ok" THEN PFail(outputs.k, outputs.st) ELSE
    Bind(many0_elements(outputs.rest, outputs.st, <<>>), LAMBDA elements :
    IF elements.k # "ok" THEN PFail(elements.k, elements.st)
    ELSE PR("ok", elements.rest,
            Model_new(name.out, inputs.out, outputs.out, elements.out),
            elements.st)))))

\* garbage_line
garbage_line(i) ==
    Bind(take_until_nl(i), LAMBDA g :
    IF g.k # "ok" THEN g ELSE
    Bind(newline(g.rest), LAMBDA n :
    IF n.k # "ok" THEN n ELSE POk(n.rest, g.out)))

\* one iteration of the loop of Config::parse_blif.  res is "ok", or "fault"
\* when one of the two unwraps (or the model parser) panics
parse_blif_step(input, models, st) ==
    Bind(get_model(input, st), LAMBDA m :
    IF m.k = "ok"
    THEN [res |-> "ok", input |-> m.rest, models |-> Append(models, m.out),
          st |-> m.st]
    ELSE IF m.k # "err"
    THEN [res |-> "fault", input |-> input, models |-> models, st |-> m.st]
    ELSE Bind(garbage_line(input), LAMBDA g :
         IF g.k = "ok"
         THEN [res |-> "ok", input |-> g.rest, models |-> models,
               st |-> m.st]
         ELSE [res |-> "fault", input |-> input, models |-> models,
               st |-> m.st]))

\* Config::parse_blif
RECURSIVE parse_blif_loop(_, _, _)
parse_blif_loop(input, models, st) ==
    IF Len(input) = 0
    THEN [res |-> "ok", input |-> input, models |-> models, st |-> st]
    ELSE Bind(parse_blif_step(input, models, st), LAMBDA r :
         IF r.res = "fault" THEN r
         ELSE parse_blif_loop(r.input, r.models, r.st))

parse_blif(input, st) == parse_blif_loop(input, <<>>, st)

\* ------------------------------------------------------------------------
\* State
\* ------------------------------------------------------------------------
VARIABLES
    State,      \* STATE: the map of the Signal Store
    poisoned,   \* a panic happened while the store's guard was held
    elements,   \* what the caller holds: [el, built], el a LUT, a Register
                \* or a Var, built "new" (Var::new, LUT::new, Register::new,
                \* the parsers) or "literal"
    res,        \* how the last operation ended: "ok" or "fault"
    last,       \* the last operation: [op, el], el the element of an exec
    doc,        \* the text handed to parse_blif
    input,      \* parse_blif: the remaining input
    models,     \* parse_blif: the Models pushed so far
    ppc,        \* parse_blif: "idle", "loop", "done" or "fault"
    runs,       \* two executions of the same pair of concurrent exec calls
    pair,       \* the elements of those exec calls: <<producer, consumer>>
    ret,        \* what the last accessor or line parser returned
    FRAME,      \* graphics.rs: the frame counter
    BUFFER,     \* graphics.rs: the pixel buffer
    calls,      \* the callers of test_render: [pc, f] each
    rng         \* a set_n_to_m and a get_n_to_m running concurrently

vars_api == <<State, poisoned, elements, res, last>>

vars_parse == <<doc, input, models, ppc>>

vars_conc == <<runs, pair>>

vars_ext == <<ret, FRAME, BUFFER, calls, rng>>

allvars == <<State, poisoned, elements, res, last, doc, input, models, ppc,
             runs, pair, ret, FRAME, BUFFER, calls, rng>>

st == [State |-> State, poisoned |-> poisoned]

\* ------------------------------------------------------------------------
\* The arguments the operations are called with
\* ------------------------------------------------------------------------
Names == {"a", "b", "y"}

Bits == {0, 1}

LutArgs ==
    { <<<<"a", "b">>, "y", <<"01 1", "10 0">>>>,
      <<<<"b", "a">>, "y", <<"01 1", "10 0">>>>,
      <<<<"a">>, "a", <<"0 1">>>>,
      <<<<"a">>, "y", <<"1 1", "1 0">>>>,
      <<<<>>, "y", <<"1 1">>>>,
      <<<<"a">>, "y", <<"- 1">>>> }

RegArgs ==
    { <<"a", "y", NoClock, NoInit>>,
      <<"a", "y", <<"fe", "b">>, "0">>,
      <<"a", "y", <<"ah", "b">>, "2">>,
      <<"a", "y", <<"as", "y">>, "1">>,
      <<"a", "a", <<"al", "b">>, "1">>,
      <<"b", "y", <<"re", "a">>, "3">>,
      <<"a", "y", NoClock, "7">> }

\* elements written as struct literals (as the tests of config.rs write
\* Var{name: ..}): nothing is registered in the store
Literals ==
    { [kind |-> "LUT", inputs |-> <<"a", "x">>, output |-> "y",
       mappings |-> (<<0, 0>> :> 1 @@ <<0, 1>> :> 1)],
      [kind |-> "Register", input |-> "x", output |-> "y", signal |-> "re",
       control |-> "NIL", init |-> 3],
      [kind |-> "Register", input |-> "b", output |-> "y", signal |-> "fe",
       control |-> "a", init |-> 1] }

InputsLines == {".inputs a b" \o NL, ".inputs y"}

OutputsLines == {".outputs y a" \o NL, ".outputs" \o NL}

LutTexts ==
    { ".names a b y" \o NL \o "01 1" \o NL \o "10 0" \o NL \o ".end",
      ".names a y" \o NL \o NL,
      ".names a y" \o NL \o "1 1" \o NL }

RegLines ==
    { ".latch a y fe b 0" \o NL, ".latch b y re a" \o NL,
      ".latch b y 1" \o NL, ".latch a y" \o NL }

ApiTexts ==
    { ".model m" \o NL \o ".inputs a" \o NL \o ".outputs y" \o NL
        \o ".latch a y" \o NL \o ".end" \o NL,
      "# c" \o NL \o ".model m" \o NL \o ".inputs a b" \o NL }

\* ------------------------------------------------------------------------
\* The operations, each called in one piece by a single caller
\* ------------------------------------------------------------------------
NoElement == <<>>

Result(op, r) ==
    /\ State' = r.st.State
    /\ poisoned' = r.st.poisoned
    /\ res' = r.res
    /\ last' = [op |-> op, el |-> NoElement]

Range(f) == {f[k] : k \in DOMAIN f}

\* the caller keeps or drops what an operation built
Keep(newels) ==
    \E K \in SUBSET newels :
        /\ Cardinality(elements \cup K) <= MaxElems
        /\ elements' = elements \cup K

Built(els) == {[el |-> e, built |-> "new"] : e \in els}

\* struct Var
Var(n) == [kind |-> "Var", name |-> n]

\* the names an element refers to
ElementVars(e) ==
    CASE e.kind = "LUT" -> Range(e.inputs) \cup {e.output}
      [] e.kind = "Register" -> {e.input, e.output, e.control}
      [] e.kind = "Var" -> {e.name}

VarNew(n) ==
    \E r \in {Var_new(st, n)} :
        /\ Result("VarNew", r)
        /\ Keep(IF r.res = "ok" THEN Built({Var(n)}) ELSE {})
        /\ UNCHANGED <<vars_parse, vars_conc, vars_ext>>

LUTNew(a) ==
    \E r \in {LUT_new(st, a[1], a[2], a[3])} :
        /\ Result("LUTNew", r)
        /\ Keep(IF r.res = "ok" THEN Built({r.out}) ELSE {})
        /\ UNCHANGED <<vars_parse, vars_conc, vars_ext>>

RegisterNew(a) ==
    \E r \in {Register_new(st, a[1], a[2], a[3], a[4])} :
        /\ Result("RegisterNew", r)
        /\ Keep(IF r.res = "ok" THEN Built({r.out}) ELSE {})
        /\ UNCHANGED <<vars_parse, vars_conc, vars_ext>>

Literal(e) ==
    /\ Cardinality(elements \cup {[el |-> e, built |-> "literal"]}) <= MaxElems
    /\ elements' = elements \cup {[el |-> e, built |-> "literal"]}
    /\ res' = "ok"
    /\ last' = [op |-> "Literal", el |-> NoElement]
    /\ UNCHANGED <<State, poisoned, vars_parse, vars_conc, vars_ext>>

\* exec takes self by value: the element is gone afterwards
LUTExec(h) ==
    /\ h \in elements
    /\ h.el.kind = "LUT"
    /\ \E r \in {LUT_exec(st, h.el)} :
           /\ State' = r.st.State
           /\ poisoned' = r.st.poisoned
           /\ res' = r.res
    /\ last' = [op |-> "LUTExec", el |-> h.el]
    /\ elements' = elements \ {h}
    /\ UNCHANGED <<vars_parse, vars_conc, vars_ext>>

RegisterExec(h) ==
    /\ h \in elements
    /\ h.el.kind = "Register"
    /\ \E r \in {Register_exec(st, h.el)} :
           /\ State' = r.st.State
           /\ poisoned' = r.st.poisoned
           /\ res' = r.res
    /\ last' = [op |-> "RegisterExec", el |-> h.el]
    /\ elements' = elements \ {h}
    /\ UNCHANGED <<vars_parse, vars_conc, vars_ext>>

Get(n) ==
    /\ Result("Get", get(st, n))
    /\ UNCHANGED <<elements, vars_parse, vars_conc, vars_ext>>

Set(n, v) ==
    /\ Result("Set", set(st, n, v))
    /\ UNCHANGED <<elements, vars_parse, vars_conc, vars_ext>>

\* the result of a line parser, seen by its caller
Parsed(op, r, newels) ==
    /\ State' = r.st.State
    /\ poisoned' = r.st.poisoned
    /\ res' = IF r.k = "panic" THEN "fault" ELSE "ok"
    /\ last' = [op |-> op, el |-> NoElement]
    /\ Keep(IF r.k = "ok" THEN Built(newels) ELSE {})
    /\ UNCHANGED <<vars_parse, vars_conc, vars_ext>>

GetInputs(l) ==
    \E r \in {get_inputs(l, st)} : Parsed("GetInputs", r, {Var(n) : n \in Range(r.out)})

GetOutputs(l) ==
    \E r \in {get_outputs(l, st)} : Parsed("GetOutputs", r, {Var(n) : n \in Range(r.out)})

GetLut(l) ==
    \E r \in {get_lut(l, st)} :
        Parsed("GetLut", r, {r.out})

GetReg(l) ==
    \E r \in {get_reg(l, st)} :
        Parsed("GetReg", r, {r.out})

\* the Variables and the elements a Model owns
ModelParts(m) ==
    {Var(n) : n \in Range(m.inputs) \cup Range(m.outputs)}
        \cup Range(m.elements)

\* Config::new
ConfigNew(t) ==
    \E r \in {parse_blif(t, st)} :
        /\ Result("ConfigNew", r)
        /\ Keep(IF r.res = "ok"
                THEN Built(UNION {ModelParts(m) : m \in Range(r.models)})
                ELSE {})
        /\ UNCHANGED <<vars_parse, vars_conc, vars_ext>>

\* the accessors, the frame counter and their callers at rest
ExtIdle ==
    /\ ret = <<>>
    /\ FRAME = 0
    /\ BUFFER = <<>>
    /\ calls = <<>>
    /\ rng = <<>>

NoRuns == <<>>

Init ==
    /\ State = EmptyMap
    /\ poisoned = FALSE
    /\ elements = {}
    /\ res = "ok"
    /\ last = [op |-> "none", el |-> NoElement]
    /\ doc = <<>>
    /\ input = ""
    /\ models = <<>>
    /\ ppc = "idle"
    /\ runs = NoRuns
    /\ pair = <<>>
    /\ ExtIdle

Next ==
    \/ \E n \in Names : VarNew(n)
    \/ \E a \in LutArgs : LUTNew(a)
    \/ \E a \in RegArgs : RegisterNew(a)
    \/ \E e \in Literals : Literal(e)
    \/ \E h \in elements : LUTExec(h)
    \/ \E h \in elements : RegisterExec(h)
    \/ \E n \in Names : Get(n)
    \/ \E n \in Names, v \in Bits : Set(n, v)
    \/ \E l \in InputsLines : GetInputs(l)
    \/ \E l \in OutputsLines : GetOutputs(l)
    \/ \E l \in LutTexts : GetLut(l)
    \/ \E l \in RegLines : GetReg(l)
    \/ \E t \in ApiTexts : ConfigNew(t)

Spec == Init /\ [][Next]_allvars

\* ------------------------------------------------------------------------
\* Config::parse_blif, one iteration of its loop at a time, on the documents
\* made of at most MaxChunks chunks
\* ------------------------------------------------------------------------
ChunkNames == {"H", "L", "R", "C", "B", "E", "U", "D"}

ChunkText(c) ==
    CASE c = "H" -> ".model m" \o NL \o ".inputs a" \o NL \o ".outputs y" \o NL
      [] c = "L" -> ".names a y" \o NL \o "1 1" \o NL
      [] c = "R" -> ".latch a y" \o NL
      [] c = "C" -> "# c" \o NL
      [] c = "B" -> NL
      [] c = "E" -> ".end" \o NL
      [] c = "U" -> "#"
      [] c = "D" -> ".names a y" \o NL \o "- 1" \o NL
      [] c = "P" -> ".model m" \o NL \o ".inputs p[0]" \o NL
                        \o ".outputs y" \o NL
      [] c = "N" -> ".names p[0] y" \o NL \o "1 1" \o NL
      [] c = "M" -> ".model m" \o NL \o ".inputs a" \o NL

RECURSIVE DocText(_)
DocText(d) == IF d = <<>> THEN "" ELSE ChunkText(Head(d)) \o DocText(Tail(d))

Docs == UNION {[1..n -> ChunkNames] : n \in 0..MaxChunks}

ParseStores == {EmptyMap, "a" :> 1}

ParseInit ==
    /\ State \in ParseStores
    /\ poisoned = FALSE
    /\ elements = {}
    /\ res = "ok"
    /\ last = [op |-> "none", el |-> NoElement]
    /\ doc \in Docs
    /\ input = DocText(doc)
    /\ models = <<>>
    /\ ppc = "loop"
    /\ runs = NoRuns
    /\ pair = <<>>
    /\ ExtIdle

\* the body of the while loop
ParseStep ==
    /\ ppc = "loop"
    /\ Len(input) > 0
    /\ LET r == parse_blif_step(input, models, st)
       IN  /\ input' = r.input
           /\ models' = r.models
           /\ State' = r.st.State
           /\ poisoned' = r.st.poisoned
           /\ res' = r.res
           /\ ppc' = IF r.res = "fault" THEN "fault" ELSE "loop"
    /\ UNCHANGED <<doc, elements, last, vars_conc, vars_ext>>

\* the loop condition fails: models is returned
ParseReturn ==
    /\ ppc = "loop"
    /\ Len(input) = 0
    /\ ppc' = "done"
    /\ UNCHANGED <<State, poisoned, elements, res, last, doc, input,
                   models, vars_conc, vars_ext>>

ParseNext == ParseStep \/ ParseReturn

ParseSpec == ParseInit /\ [][ParseNext]_allvars

\* ------------------------------------------------------------------------
\* Two exec calls running concurrently.  A step of a thread is one
\* STATE.lock() with the one store access made under it.  runs holds two
\* executions of the same calls from the same store, each scheduled on its
\* own: runs[r] = [st, phase, sig, saw], phase and sig per thread, saw
\* whether the consumer read the shared signal after the producer wrote it.
\* ------------------------------------------------------------------------
NoStore == [State |-> EmptyMap, poisoned |-> FALSE]

ConcNames == {"a", "b", "y"}

Shared == "b"

Producers ==
    { Register_new(NoStore, "a", Shared, <<"re", "y">>, NoInit).out,
      LUT_new(NoStore, <<"a">>, Shared, <<"0 1", "1 0">>).out }

Consumers ==
    { Register_new(NoStore, Shared, "y", <<"fe", "a">>, "1").out,
      LUT_new(NoStore, <<"a", Shared>>, "y", <<"11 1", "00 0", "01 1">>).out }

\* the first step of an exec
FirstPhase(e) ==
    IF e.kind = "LUT" /\ Len(e.inputs) = 0 THEN "write" ELSE "read"

\* the next lock of an exec that has read sig so far: one more input, or
\* the output
exec_step(s, e, sig, phase) ==
    IF phase = "read"
    THEN LET r == IF e.kind = "LUT"
                  THEN LUT_exec_read(s, e.inputs[Len(sig) + 1])
                  ELSE Register_exec_read(s, e)
             n == IF e.kind = "LUT" THEN Len(e.inputs) ELSE 1
         IN  IF r.res = "fault"
             THEN [st |-> r.st, sig |-> sig, phase |-> "fault"]
             ELSE [st |-> r.st, sig |-> Append(sig, r.out),
                   phase |-> IF Len(sig) + 1 = n THEN "write" ELSE "read"]
    ELSE LET r == IF e.kind = "LUT"
                  THEN LUT_exec_write(s, e, sig)
                  ELSE Register_exec_write(s, e, sig[1])
         IN  [st |-> r.st, sig |-> sig,
              phase |-> IF r.res = "fault" THEN "fault" ELSE "done"]

Run0(c0, p) ==
    [st |-> [State |-> c0, poisoned |-> FALSE],
     phase |-> <<FirstPhase(p[1]), FirstPhase(p[2])>>,
     sig |-> <<<<>>, <<>>>>,
     saw |-> FALSE]

ConcInit ==
    /\ State \in [ConcNames -> Bits]
    /\ poisoned = FALSE
    /\ elements = {}
    /\ res = "ok"
    /\ last = [op |-> "none", el |-> NoElement]
    /\ doc = <<>>
    /\ input = ""
    /\ models = <<>>
    /\ ppc = "idle"
    /\ pair \in Producers \X Consumers
    /\ ExtIdle
    /\ runs = [r \in {1, 2} |-> Run0(State, pair)]

\* the input the thread reads next is the shared signal
ReadsShared(e, sig) ==
    IF e.kind = "LUT" THEN e.inputs[Len(sig) + 1] = Shared
    ELSE e.input = Shared

ConcStep(r, t, ph) ==
    /\ runs[r].phase[t] = ph
    /\ \E n \in {exec_step(runs[r].st, pair[t], runs[r].sig[t], ph)} :
        runs' = [runs EXCEPT ![r] =
                    [st |-> n.st,
                     phase |-> [@.phase EXCEPT ![t] = n.phase],
                     sig |-> [@.sig EXCEPT ![t] = n.sig],
                     saw |-> IF t = 2 /\ ph = "read"
                                  /\ ReadsShared(pair[2], @.sig[2])
                             THEN @.phase[1] = "done" ELSE @.saw]]
    /\ UNCHANGED <<vars_api, vars_parse, pair, vars_ext>>

\* a thread takes the lock and reads one input
ConcRead(r, t) == ConcStep(r, t, "read")

\* a thread looks its vector up and, on a match, takes the lock and writes
ConcWrite(r, t) == ConcStep(r, t, "write")

ConcNext ==
    \/ \E r \in {1, 2}, t \in {1, 2} : ConcRead(r, t)
    \/ \E r \in {1, 2}, t \in {1, 2} : ConcWrite(r, t)

ConcSpec == ConcInit /\ [][ConcNext]_allvars

\* ------------------------------------------------------------------------
\* get_reg on one .latch line, in each of its forms, followed by the rest of
\* a text
\* ------------------------------------------------------------------------
\* <<input, output, clock, init>>
LatchForms ==
    {<<i, o, c, d>> : i \in {"a", "$0out[8:0][8]"}, o \in {"y"},
                      c \in {NoClock} \cup {<<e, k>> : e \in Range(ClockSignals),
                                                       k \in {"b", "clk"}},
                      d \in {NoInit, "0", "1", "2", "3"}}

LatchText(f) ==
    ".latch " \o f[1] \o " " \o f[2]
        \o (IF f[3] = NoClock THEN "" ELSE " " \o f[3][1] \o " " \o f[3][2])
        \o (IF f[4] = NoInit THEN "" ELSE " " \o f[4])
        \o NL

LineInit ==
    /\ State \in ParseStores
    /\ poisoned = FALSE
    /\ elements = {}
    /\ res = "ok"
    /\ last = [op |-> "none", el |-> NoElement]
    /\ doc \in LatchForms \X {"", ".end" \o NL}
    /\ input = LatchText(doc[1]) \o doc[2]
    /\ models = <<>>
    /\ ppc = "line"
    /\ runs = NoRuns
    /\ pair = <<>>
    /\ ExtIdle

\* get_reg(input): ppc becomes the kind of the parser's result
LineGetReg ==
    /\ ppc = "line"
    /\ \E r \in {get_reg(input, st)} :
           /\ State' = r.st.State
           /\ poisoned' = r.st.poisoned
           /\ res' = IF r.k = "panic" THEN "fault" ELSE "ok"
           /\ ppc' = r.k
           /\ input' = IF r.k = "ok" THEN r.rest ELSE input
           /\ last' = [op |-> "get_reg",
                       el |-> IF r.k = "ok" THEN r.out ELSE NoElement]
    /\ UNCHANGED <<elements, doc, models, vars_conc, vars_ext>>

LineNext == LineGetReg

LineSpec == LineInit /\ [][LineNext]_allvars

\* ------------------------------------------------------------------------
\* The accessors of util.rs, each called in one piece by a single caller, on
\* a store with some of the keys q, p[0] .. p[MaxIndex-1]
\* ------------------------------------------------------------------------
AccVar == "p"

AccSingle == "q"

AccKeys == {AccSingle} \cup {format_index(AccVar, b) : b \in 0..(MaxIndex - 1)}

AccIndex == 0..MaxIndex

BitSeqs == UNION {[1..n -> Bits] : n \in 0..MaxIndex}

AccInit ==
    /\ State \in UNION {[K -> Bits] : K \in SUBSET AccKeys}
    /\ poisoned = FALSE
    /\ elements = {}
    /\ res = "ok"
    /\ last = [op |-> "none", el |-> NoElement]
    /\ doc = <<>>
    /\ input = ""
    /\ models = <<>>
    /\ ppc = "idle"
    /\ runs = NoRuns
    /\ pair = <<>>
    /\ ExtIdle

\* what a call leaves: the store, how it ended, its arguments, its value
AccResult(op, args, r, value) ==
    /\ State' = r.st.State
    /\ poisoned' = r.st.poisoned
    /\ res' = r.res
    /\ last' = [op |-> op, el |-> args]
    /\ ret' = value
    /\ UNCHANGED <<elements, vars_parse, vars_conc, FRAME, BUFFER, calls, rng>>

AccGet(var) ==
    \E r \in {get(st, var)} :
        AccResult("get", <<var>>, r, IF r.res = "ok" THEN <<r.out>> ELSE <<>>)

AccGetNToM(var, n, m) ==
    \E r \in {get_n_to_m(st, var, n, m)} :
        AccResult("get_n_to_m", <<var, n, m>>, r, r.out)

AccSet(var, val) ==
    \E r \in {set(st, var, val)} : AccResult("set", <<var, val>>, r, <<>>)

AccSetN(var, n, val) ==
    \E r \in {set_n(st, var, n, val)} :
        AccResult("set_n", <<var, n, val>>, r, <<>>)

AccSetNToM(var, n, m, val) ==
    \E r \in {set_n_to_m(st, var, n, m, val)} :
        AccResult("set_n_to_m", <<var, n, m, val>>, r, <<>>)

AccNext ==
    \/ \E var \in {AccSingle, format_index(AccVar, 0)} : AccGet(var)
    \/ \E n, m \in AccIndex : AccGetNToM(AccVar, n, m)
    \/ \E var \in {AccSingle, format_index(AccVar, 0)}, v \in Bits :
           AccSet(var, v)
    \/ \E n \in AccIndex, v \in Bits : AccSetN(AccVar, n, v)
    \/ \E n, m \in AccIndex, val \in BitSeqs : AccSetNToM(AccVar, n, m, val)

AccSpec == AccInit /\ [][AccNext]_allvars

\* ------------------------------------------------------------------------
\* Config::parse_blif on the texts with indexed signal names ("P", "N") and
\* with a header that stops after its .inputs line ("M")
\* ------------------------------------------------------------------------
TextDocs ==
    UNION {[1..n -> {"P", "N", "M", "H", "L", "C", "E"}] : n \in 0..MaxChunks}

TextInit ==
    /\ State \in ParseStores
    /\ poisoned = FALSE
    /\ elements = {}
    /\ res = "ok"
    /\ last = [op |-> "none", el |-> NoElement]
    /\ doc \in TextDocs
    /\ input = DocText(doc)
    /\ models = <<>>
    /\ ppc = "loop"
    /\ runs = NoRuns
    /\ pair = <<>>
    /\ ExtIdle

TextSpec == TextInit /\ [][ParseNext]_allvars

\* ------------------------------------------------------------------------
\* graphics.rs: test_render, called by MaxCallers callers.  A step of a
\* caller is the fetch_add on FRAME, the read of the pixel with the write of
\* BUFFER[f], or the compare_and_swap on FRAME.  The buffer has MaxFrame
\* cells in place of the 801 * 524 of the source.
\* ------------------------------------------------------------------------
VGA_BUFFER_SIZE == MaxFrame

Callers == 1..MaxCallers

PixelKeys == RangeKeys("pixel", 0, 4)

\* the stores test_render reads "pixel" from
PixelStores ==
    { [k \in PixelKeys |-> 0],
      [k \in PixelKeys |-> IF k = format_index("pixel", 1) THEN 0 ELSE 1] }

\* the u32 0xFF_00_00_00 | 0xFF << (i*8) for each i in 0..3 with px[i] == 1,
\* as its four bytes from the lowest
color_of(px) ==
    [i \in 1..4 |-> IF i = 4 THEN 255 ELSE IF px[i] = 1 THEN 255 ELSE 0]

GfxInit ==
    /\ State \in PixelStores
    /\ poisoned = FALSE
    /\ elements = {}
    /\ res = "ok"
    /\ last = [op |-> "none", el |-> NoElement]
    /\ doc = <<>>
    /\ input = ""
    /\ models = <<>>
    /\ ppc = "idle"
    /\ runs = NoRuns
    /\ pair = <<>>
    /\ ret = <<>>
    /\ FRAME = 0
    /\ BUFFER = [f \in 0..(VGA_BUFFER_SIZE - 1) |-> <<0, 0, 0, 0>>]
    /\ calls = [c \in Callers |-> [pc |-> "idle", f |-> 0]]
    /\ rng = <<>>

\* let f = FRAME.fetch_add(1, Ordering::Relaxed)
RenderFetch(c) ==
    /\ calls[c].pc = "idle"
    /\ FRAME < VGA_BUFFER_SIZE + MaxCallers
    /\ calls' = [calls EXCEPT ![c] = [pc |-> "write", f |-> FRAME]]
    /\ FRAME' = FRAME + 1
    /\ UNCHANGED <<vars_api, vars_parse, vars_conc, ret, BUFFER, rng>>

\* let px = get_n_to_m("pixel", 0, 4); ...; BUFFER[f] = color: the index is
\* checked against the length of the array and the caller panics when it is
\* out of bounds
RenderWrite(c) ==
    /\ calls[c].pc = "write"
    /\ \E r \in {get_n_to_m(st, "pixel", 0, 4)} :
           /\ State' = r.st.State
           /\ poisoned' = r.st.poisoned
           /\ ret' = r.out
           /\ IF r.res = "fault" \/ calls[c].f >= VGA_BUFFER_SIZE
              THEN /\ res' = "fault"
                   /\ calls' = [calls EXCEPT ![c].pc = "fault"]
                   /\ BUFFER' = BUFFER
              ELSE /\ res' = "ok"
                   /\ calls' = [calls EXCEPT ![c].pc = "cas"]
                   /\ BUFFER' = [BUFFER EXCEPT ![calls[c].f] = color_of(r.out)]
    /\ last' = [op |-> "test_render", el |-> NoElement]
    /\ UNCHANGED <<elements, vars_parse, vars_conc, FRAME, rng>>

\* FRAME.compare_and_swap(VGA_BUFFER_SIZE, 0, Ordering::Relaxed)
RenderCas(c) ==
    /\ calls[c].pc = "cas"
    /\ FRAME' = IF FRAME = VGA_BUFFER_SIZE THEN 0 ELSE FRAME
    /\ calls' = [calls EXCEPT ![c].pc = "idle"]
    /\ UNCHANGED <<vars_api, vars_parse, vars_conc, ret, BUFFER, rng>>

GfxNext ==
    \/ \E c \in Callers : RenderFetch(c)
    \/ \E c \in Callers : RenderWrite(c)
    \/ \E c \in Callers : RenderCas(c)

GfxSpec == GfxInit /\ [][GfxNext]_allvars

\* ------------------------------------------------------------------------
\* Two exec calls on a pair of elements, one store access at a time, in two
\* executions scheduled each on its own; order is the sequence of the
\* threads that took the steps of an execution
\* ------------------------------------------------------------------------
IndepNames == {"a", "b", "y", "z"}

\* pairs where neither element writes a signal the other reads or writes:
\* a shared input, a control that is the other's output, an input that was
\* never registered
IndepPairs ==
    { <<Register_new(NoStore, "a", "b", <<"re", "y">>, NoInit).out,
        LUT_new(NoStore, <<"a">>, "y", <<"0 1", "1 0">>).out>>,
      <<LUT_new(NoStore, <<"a", "b">>, "y", <<"11 1", "00 0">>).out,
        Register_new(NoStore, "b", "z", NoClock, NoInit).out>>,
      <<[kind |-> "LUT", inputs |-> <<"a", "x">>, output |-> "y",
         mappings |-> (<<0, 0>> :> 1 @@ <<0, 1>> :> 1)],
        Register_new(NoStore, "a", "b", NoClock, NoInit).out>> }

IndepRun0(c0, p) ==
    [st |-> [State |-> c0, poisoned |-> FALSE],
     phase |-> <<FirstPhase(p[1]), FirstPhase(p[2])>>,
     sig |-> <<<<>>, <<>>>>,
     order |-> <<>>]

IndepInit ==
    /\ State \in [IndepNames -> Bits]
    /\ poisoned = FALSE
    /\ elements = {}
    /\ res = "ok"
    /\ last = [op |-> "none", el |-> NoElement]
    /\ doc = <<>>
    /\ input = ""
    /\ models = <<>>
    /\ ppc = "idle"
    /\ pair \in IndepPairs \cup (Producers \X Consumers)
    /\ runs = [r \in {1, 2} |-> IndepRun0(State, pair)]
    /\ ExtIdle

\* thread t of execution r takes the lock for its next store access
IndepStep(r, t) ==
    /\ runs[r].phase[t] \in {"read", "write"}
    /\ \E n \in {exec_step(runs[r].st, pair[t], runs[r].sig[t],
                            runs[r].phase[t])} :
        runs' = [runs EXCEPT ![r] =
                    [st |-> n.st,
                     phase |-> [@.phase EXCEPT ![t] = n.phase],
                     sig |-> [@.sig EXCEPT ![t] = n.sig],
                     order |-> Append(@.order, t)]]
    /\ UNCHANGED <<vars_api, vars_parse, pair, vars_ext>>

IndepNext == \E r \in {1, 2}, t \in {1, 2} : IndepStep(r, t)

IndepSpec == IndepInit /\ [][IndepNext]_allvars

\* ------------------------------------------------------------------------
\* get_n_to_m, set_n_to_m and set_n over p[0..MaxIndex), each on a thread of
\* its own.  rng = [rd, wr, snap, old, single]: the reader ([pc, b, out]),
\* the range writer ([pc, j, val]), the store when the reader took its
\* guard, the store at the start, whether a single-signal write has run.
\* ------------------------------------------------------------------------
\* no guard is held across steps
guard_released(rd) == FALSE

\* let s = STATE.lock().unwrap(): the reader holds the guard s from its lock
\* to its return
guard_held(rd) == rd.pc = "loop"

RangeInit ==
    /\ State \in [RangeKeys(AccVar, 0, MaxIndex) -> Bits]
    /\ poisoned = FALSE
    /\ elements = {}
    /\ res = "ok"
    /\ last = [op |-> "none", el |-> NoElement]
    /\ doc = <<>>
    /\ input = ""
    /\ models = <<>>
    /\ ppc = "idle"
    /\ runs = NoRuns
    /\ pair = <<>>
    /\ ret = <<>>
    /\ FRAME = 0
    /\ BUFFER = <<>>
    /\ calls = <<>>
    /\ \E val \in [1..MaxIndex -> Bits] :
           rng = [rd |-> [pc |-> "idle", b |-> 0, out |-> <<>>],
                  wr |-> [pc |-> "loop", j |-> 0, val |-> val],
                  snap |-> State, old |-> State, single |-> FALSE]

\* get_n_to_m: let s = STATE.lock().unwrap()
ReaderLock ==
    /\ rng.rd.pc = "idle"
    /\ lock_unwrap(st)
    /\ rng' = [rng EXCEPT !.rd = [pc |-> "loop", b |-> 0, out |-> <<>>],
                          !.snap = State]
    /\ UNCHANGED <<vars_api, vars_parse, vars_conc, ret, FRAME, BUFFER, calls>>

\* get_n_to_m: out.push(s.get(&format!("{}[{}]", var, b)).unwrap().val)
ReaderRead ==
    /\ rng.rd.pc = "loop"
    /\ rng.rd.b < MaxIndex
    /\ format_index(AccVar, rng.rd.b) \in DOMAIN State
    /\ rng' = [rng EXCEPT !.rd.b = @ + 1,
                          !.rd.out = Append(@, State[format_index(AccVar,
                                                                  rng.rd.b)])]
    /\ UNCHANGED <<vars_api, vars_parse, vars_conc, ret, FRAME, BUFFER, calls>>

\* get_n_to_m: return out (the guard is dropped)
ReaderReturn ==
    /\ rng.rd.pc = "loop"
    /\ rng.rd.b >= MaxIndex
    /\ ret' = rng.rd.out
    /\ rng' = [rng EXCEPT !.rd.pc = "done"]
    /\ last' = [op |-> "get_n_to_m", el |-> <<AccVar, 0, MaxIndex>>]
    /\ UNCHANGED <<State, poisoned, elements, res, vars_parse, vars_conc,
                   FRAME, BUFFER, calls>>

\* set_n_to_m: one iteration of its loop, with a lock of its own
WriterStep ==
    /\ rng.wr.pc = "loop"
    /\ ~guard_held(rng.rd)
    /\ \E r \in {set_n_to_m_step(st, AccVar, 0,
                                   set_n_to_m_index(0, MaxIndex, rng.wr.j),
                                   rng.wr.val)} :
           /\ State' = r.st.State
           /\ poisoned' = r.st.poisoned
           /\ res' = r.res
           /\ rng' = [rng EXCEPT
                         !.wr.j = @ + 1,
                         !.wr.pc = IF r.res = "fault" THEN "fault"
                                   ELSE IF rng.wr.j + 1 >= MaxIndex THEN "done"
                                   ELSE "loop"]
    /\ last' = [op |-> "set_n_to_m", el |-> <<AccVar, 0, MaxIndex, rng.wr.val>>]
    /\ UNCHANGED <<elements, vars_parse, vars_conc, ret, FRAME, BUFFER, calls>>

\* set_n by a third thread
SingleSet(n, v) ==
    /\ ~guard_held(rng.rd)
    /\ \E r \in {set_n(st, AccVar, n, v)} :
           /\ State' = r.st.State
           /\ poisoned' = r.st.poisoned
           /\ res' = r.res
    /\ rng' = [rng EXCEPT !.single = TRUE]
    /\ last' = [op |-> "set_n", el |-> <<AccVar, n, v>>]
    /\ UNCHANGED <<elements, vars_parse, vars_conc, ret, FRAME, BUFFER, calls>>

RangeNext ==
    \/ ReaderLock
    \/ ReaderRead
    \/ ReaderReturn
    \/ WriterStep
    \/ \E n \in 0..(MaxIndex - 1), v \in Bits : SingleSet(n, v)

RangeSpec == RangeInit /\ [][RangeNext]_allvars

\* ------------------------------------------------------------------------
\* Properties
\* ------------------------------------------------------------------------
CreateOps ==
    {"VarNew", "LUTNew", "RegisterNew", "GetInputs", "GetOutputs", "GetLut",
     "GetReg", "ConfigNew"}

\* C1: an operation that creates Variables (Var::new, the constructors, the
\* parsers) leaves the value of every signal already in the store as it was,
\* and adds the new names with value 0.
C1Claim ==
    [][last'.op \in CreateOps =>
           /\ \A k \in DOMAIN State :
                  k \in DOMAIN State' /\ State'[k] = State[k]
           /\ \A k \in DOMAIN State' \ DOMAIN State : State'[k] = 0]_allvars

\* the values of a LUT's inputs in the store S, in declared order
LutVector(S, e) == [k \in DOMAIN e.inputs |-> S[e.inputs[k]]]

\* C2: exec of a LUT whose names are in the store sets the output to the bit
\* its table maps the current input vector to and, when the vector is not a
\* key of the table, leaves the output as it was; no other signal changes and
\* the store keeps its keys.
C2Thm ==
    [][(/\ last'.op = "LUTExec"
        /\ ~poisoned
        /\ ElementVars(last'.el) \subseteq DOMAIN State) =>
           LET e == last'.el
               v == LutVector(State, e)
           IN  /\ res' = "ok"
               /\ DOMAIN State' = DOMAIN State
               /\ \A n \in DOMAIN State \ {e.output} : State'[n] = State[n]
               /\ State'[e.output] =
                      IF v \in DOMAIN e.mappings THEN e.mappings[v]
                      ELSE State[e.output]]_allvars

\* a LUT over (a, b) ran on a vector that is no key of its table and its
\* output still holds 1
C2Witness ==
    /\ last.op = "LUTExec"
    /\ res = "ok"
    /\ last.el.inputs = <<"a", "b">>
    /\ last.el.output = "y"
    /\ {"a", "b", "y"} \subseteq DOMAIN State
    /\ LutVector(State, last.el) \notin DOMAIN last.el.mappings
    /\ State["y"] = 1

\* C3: exec of a Register whose input is in the store copies the input's
\* value to the output whatever the clock name, the control signal and its
\* value, and the init tag; no other signal changes.
C3Thm ==
    [][(/\ last'.op = "RegisterExec"
        /\ ~poisoned
        /\ last'.el.input \in DOMAIN State) =>
           LET e == last'.el
           IN  /\ res' = "ok"
               /\ DOMAIN State' = DOMAIN State \cup {e.output}
               /\ State'[e.output] = State[e.input]
               /\ \A n \in DOMAIN State \ {e.output} : State'[n] = State[n]]_allvars

\* a falling-edge Register whose control signal is 0 has copied a 1
C3Witness ==
    /\ last.op = "RegisterExec"
    /\ res = "ok"
    /\ last.el.signal = "fe"
    /\ last.el.control \in DOMAIN State
    /\ State[last.el.control] = 0
    /\ last.el.init = 0
    /\ State[last.el.input] = 1
    /\ State[last.el.output] = 1

\* the chunks with a truth-table row or an init digit the claim excludes
FaultyChunks == {"D"}

CleanDoc == \A k \in DOMAIN doc : doc[k] \notin FaultyChunks

\* C4: on a text without a bad row or init digit, no iteration of the loop
\* of parse_blif faults, every iteration shortens the remaining input, and
\* the loop ends with the input consumed.
C4Claim ==
    [][CleanDoc =>
           /\ ppc' # "fault"
           /\ (ppc = "loop" /\ ppc' = "loop") => Len(input') < Len(input)
           /\ ppc' = "done" => input' = ""]_allvars

ElementChunks == {"L", "R"}

GarbageChunks == {"C", "B", "E"}

\* the element a well-formed block stands for
ChunkElement(c) ==
    IF c = "L"
    THEN [kind |-> "LUT", inputs |-> <<"a">>, output |-> "y",
          mappings |-> (<<1>> :> 1)]
    ELSE [kind |-> "Register", input |-> "a", output |-> "y",
          signal |-> "re", control |-> "NIL", init |-> 3]

\* the elements of the blocks of d that follow position k without a break
RECURSIVE BlocksFrom(_, _)
BlocksFrom(d, k) ==
    IF k > Len(d) \/ d[k] \notin ElementChunks THEN <<>>
    ELSE <<ChunkElement(d[k])>> \o BlocksFrom(d, k + 1)

\* one Model per section of d, from position k on
RECURSIVE SectionModels(_, _)
SectionModels(d, k) ==
    IF k > Len(d) THEN <<>>
    ELSE IF d[k] = "H"
    THEN <<Model_new("m", <<"a">>, <<"y">>, BlocksFrom(d, k + 1))>>
             \o SectionModels(d, k + 1)
    ELSE SectionModels(d, k + 1)

\* a document of model sections (a header and its blocks) and garbage lines
\* between them
SectionDoc ==
    /\ \A k \in DOMAIN doc :
           doc[k] \in {"H"} \cup ElementChunks \cup GarbageChunks
    /\ \A k \in DOMAIN doc :
           doc[k] \in ElementChunks =>
               k > 1 /\ doc[k - 1] \in {"H"} \cup ElementChunks

\* C5: a document of well-formed sections separated by garbage lines parses
\* without a fault into exactly one Model per section, in order.
C5Claim ==
    SectionDoc =>
        /\ ppc # "fault"
        /\ ppc = "done" => models = SectionModels(doc, 1)

\* every block of d, in order
RECURSIVE AllBlocks(_)
AllBlocks(d) ==
    IF d = <<>> THEN <<>>
    ELSE (IF Head(d) \in ElementChunks THEN <<ChunkElement(Head(d))>>
          ELSE <<>>) \o AllBlocks(Tail(d))

\* one section with comment or blank lines between its blocks
InnerGarbageDoc ==
    /\ Len(doc) >= 2
    /\ doc[1] = "H"
    /\ \A k \in 2..Len(doc) : doc[k] \in ElementChunks \cup {"C", "B"}
    /\ \A k \in 2..Len(doc) :
           doc[k] \in {"C", "B"} =>
               /\ doc[k - 1] \in ElementChunks
               /\ k < Len(doc)
               /\ doc[k + 1] \in ElementChunks

\* C6: the Model of a section with garbage lines between its blocks lists
\* every block of the section, those after a dropped line too, in order.
C6Claim ==
    (InnerGarbageDoc /\ ppc = "done") =>
        models = <<Model_new("m", <<"a">>, <<"y">>, AllBlocks(doc))>>

\* C7: every name a constructed Variable, LUT or Register refers to (the
\* default control "NIL" too) is a key of the store.
C7Thm ==
    \A h \in elements :
        h.built = "new" => ElementVars(h.el) \subseteq DOMAIN State

\* a Register built without a clock is held and "NIL" is a key
C7Witness ==
    \E h \in elements :
        /\ h.built = "new"
        /\ h.el.kind = "Register"
        /\ h.el.control = "NIL"
        /\ "NIL" \in DOMAIN State

\* the names an exec reads
ElementInputs(e) == IF e.kind = "LUT" THEN Range(e.inputs) ELSE {e.input}

\* C8: exec of an element one of whose inputs is not a key of the store
\* ends in a fault and leaves the store as it was: no output written, no key
\* created.
C8Thm ==
    [][(/\ last'.op \in {"LUTExec", "RegisterExec"}
        /\ ~(ElementInputs(last'.el) \subseteq DOMAIN State)) =>
           /\ res' = "fault"
           /\ State' = State]_allvars

\* a LUT whose first input is a key and whose second is not has faulted
C8Witness ==
    /\ last.op = "LUTExec"
    /\ res = "fault"
    /\ last.el.inputs[1] \in DOMAIN State
    /\ last.el.inputs[2] \notin DOMAIN State
    /\ last.el.output \in DOMAIN State
    /\ State[last.el.output] = 0

\* what an element computes from the store S
Eval(e, S) ==
    IF e.kind = "Register" THEN S[e.input]
    ELSE IF LutVector(S, e) \in DOMAIN e.mappings
         THEN e.mappings[LutVector(S, e)]
         ELSE S[e.output]

BothDone(r) == runs[r].phase = <<"done", "done">>

\* the store after both calls, the consumer having read the shared signal
\* after (post) or before the producer's write
Outcome(post) ==
    LET w == Eval(pair[1], State)
        S1 == [State EXCEPT ![pair[1].output] = w]
    IN  [S1 EXCEPT ![pair[2].output] = Eval(pair[2], IF post THEN S1 ELSE State)]

\* C9: two concurrent exec calls, one writing the signal the other reads,
\* end in the store of one of the two orders, the one the consumer's read of
\* the shared signal fell in; both are reachable from the same store.
C9Thm ==
    \A r \in DOMAIN runs :
        BothDone(r) => runs[r].st.State = Outcome(runs[r].saw)

\* from one store, a run where the consumer read the old value and a run
\* where it read the new one, ending in different stores
C9Witness ==
    /\ runs # NoRuns
    /\ BothDone(1)
    /\ BothDone(2)
    /\ ~runs[1].saw
    /\ runs[2].saw
    /\ runs[1].st.State # runs[2].st.State

\* the operations that always take the store's lock
LockingOps ==
    {"VarNew", "LUTNew", "RegisterNew", "Get", "Set", "RegisterExec"}

\* C10: once a fault has poisoned the store's lock, the store never changes
\* again, nothing is registered or built, and every operation that reaches
\* the store ends in a fault.
C10Thm ==
    [][poisoned =>
           /\ poisoned'
           /\ State' = State
           /\ \A h \in elements' \ elements : h.built = "literal"
           /\ last'.op \in LockingOps => res' = "fault"
           /\ (last'.op = "LUTExec" /\ Len(last'.el.inputs) > 0)
                  => res' = "fault"]_allvars

\* every name is a key, so only an exec reading "x" can have faulted, and a
\* later write has faulted
C10Witness ==
    /\ poisoned
    /\ Names \subseteq DOMAIN State
    /\ last.op = "Set"
    /\ res = "fault"

\* the digit of an init character, 3 (UNKNOWN) when there is none
InitOf(d) ==
    CASE d = "0" -> 0 [] d = "1" -> 1 [] d = "2" -> 2 [] d = "3" -> 3
      [] d = NoInit -> 3

\* C11: a .latch line is accepted in each of its four forms, with each edge
\* name and each init digit; the Register has the given input and output, the
\* given clock name and control or "re" and "NIL", the given init digit or 3,
\* and the whole line is consumed.
C11Thm ==
    last.op = "get_reg" =>
        LET f == doc[1]
        IN  /\ ppc = "ok"
            /\ res = "ok"
            /\ input = doc[2]
            /\ last.el = [kind |-> "Register", input |-> f[1],
                          output |-> f[2],
                          signal |-> IF f[3] = NoClock THEN "re" ELSE f[3][1],
                          control |-> IF f[3] = NoClock THEN "NIL"
                                      ELSE f[3][2],
                          init |-> InitOf(f[4])]

\* the form 'IN OUT INIT' in front of more text: a line with an init digit
\* and no clock gave a Register with the default clock and that digit
C11Witness ==
    /\ last.op = "get_reg"
    /\ ppc = "ok"
    /\ doc[1][3] = NoClock
    /\ doc[1][4] = "2"
    /\ doc[2] # ""
    /\ last.el.signal = "re"
    /\ last.el.control = "NIL"
    /\ last.el.init = 2

\* C12: every key of the table of a LUT built by LUT::new or by the parsers
\* has as many bits as the LUT has inputs.
C12Claim ==
    \A h \in elements :
        (h.built = "new" /\ h.el.kind = "LUT") =>
            \A key \in DOMAIN h.el.mappings : Len(key) = Len(h.el.inputs)

\* the chunks a Model's section may hold after its header: blocks, comments
\* and blank lines
SectionChunks == {"L", "R", "D", "C", "B"}

\* chunk j of d is a block of the section opened by a header before it (a
\* header that starts a line: "U" leaves its line open)
InSection(d, j) ==
    \E i \in 1..(j - 1) :
        /\ d[i] = "H"
        /\ (i > 1 => d[i - 1] # "U")
        /\ \A k \in (i + 1)..(j - 1) : d[k] \in SectionChunks

\* C13: a truth-table row with the don't-care character in its pattern is a
\* fatal fault: parse_blif never returns a Design for a text with such a row
\* in a .names block of one of its Models.
C13Claim ==
    (ppc = "done" /\ res = "ok") =>
        ~ \E j \in 1..Len(doc) : doc[j] = "D" /\ InSection(doc, j)

\* C14: when the keys name[lo..hi) are present, bits has length hi-lo and no
\* fault has poisoned the lock,
\* set_n_to_m writes bits[k] to name[lo+k] and leaves every other signal and
\* the set of keys as they were, and a get_n_to_m of the same range called
\* next returns exactly bits.
C14Thm ==
    [][/\ (/\ last'.op = "set_n_to_m"
            /\ ~poisoned
            /\ RangeKeys(last'.el[1], last'.el[2], last'.el[3])
                   \subseteq DOMAIN State
            /\ Len(last'.el[4]) = last'.el[3] - last'.el[2]) =>
               LET var == last'.el[1]
                   lo == last'.el[2]
                   hi == last'.el[3]
                   bits == last'.el[4]
               IN  /\ res' = "ok"
                   /\ DOMAIN State' = DOMAIN State
                   /\ \A k \in DOMAIN State \ RangeKeys(var, lo, hi) :
                          State'[k] = State[k]
                   /\ \A k \in 0..(hi - lo - 1) :
                          State'[format_index(var, lo + k)] = bits[k + 1]
       /\ (/\ last.op = "set_n_to_m"
            /\ res = "ok"
            /\ ~poisoned
            /\ Len(last.el[4]) = last.el[3] - last.el[2]
            /\ last'.op = "get_n_to_m"
            /\ last'.el = <<last.el[1], last.el[2], last.el[3]>>) =>
               /\ res' = "ok"
               /\ ret' = last.el[4]]_allvars

\* get_n_to_m("p", 1, 2) returned the one bit of p[1], which differs from
\* p[0]'s
C14Witness ==
    /\ last.op = "get_n_to_m"
    /\ res = "ok"
    /\ last.el = <<AccVar, 1, 2>>
    /\ ret = <<1>>
    /\ RangeKeys(AccVar, 0, 2) \subseteq DOMAIN State
    /\ State[format_index(AccVar, 0)] = 0
    /\ State[format_index(AccVar, 1)] = 1

AccOps == {"get", "get_n_to_m", "set", "set_n", "set_n_to_m"}

\* the keys a call of an accessor addresses
AccAddressed(l) ==
    CASE l.op \in {"get", "set"} -> {l.el[1]}
      [] l.op = "set_n" -> {format_index(l.el[1], l.el[2])}
      [] l.op \in {"get_n_to_m", "set_n_to_m"} ->
             RangeKeys(l.el[1], l.el[2], l.el[3])

\* C15: an accessor called with a name or an index whose key is not in the
\* store ends in a fault: no key is created and no value is returned.
C15Thm ==
    [][(/\ last'.op \in AccOps
        /\ ~(AccAddressed(last') \subseteq DOMAIN State)) =>
           /\ res' = "fault"
           /\ DOMAIN State' = DOMAIN State
           /\ ret' = <<>>]_allvars

\* set_n_to_m over p[0..2) wrote p[0], then faulted on the missing p[1]
C15Witness ==
    /\ last.op = "set_n_to_m"
    /\ res = "fault"
    /\ poisoned
    /\ last.el = <<AccVar, 0, 2, <<1, 1>>>>
    /\ format_index(AccVar, 0) \in DOMAIN State
    /\ State[format_index(AccVar, 0)] = 1
    /\ format_index(AccVar, 1) \notin DOMAIN State

\* the Combinational Element of the block "N"
IndexedLut ==
    [kind |-> "LUT", inputs |-> <<format_index(AccVar, 0)>>, output |-> "y",
     mappings |-> (<<1>> :> 1)]

\* C16: a .names block whose names hold the characters ".inputs" accepts
\* (here "p[0]") becomes a Combinational Element with those names and its
\* rows, listed by its Model: a returned Design whose text has the block
\* right after a header has a Model with that element.
C16Claim ==
    (ppc = "done" /\ res = "ok") =>
        \A j \in 1..(Len(doc) - 1) :
            (doc[j] = "P" /\ doc[j + 1] = "N") =>
                \E k \in 1..Len(models) :
                    IndexedLut \in Range(models[k].elements)

\* C19: an iteration of parse_blif's loop that pushes no Model and discards
\* a line as garbage leaves the store as it was: no key added, no value
\* changed.
C19Claim ==
    [][(/\ ppc = "loop"
        /\ ppc' = "loop"
        /\ models' = models) => State' = State]_allvars

\* C17: the index a caller of test_render is about to write BUFFER at is
\* below VGA_BUFFER_SIZE, and between calls FRAME is an index of the buffer
\* (it is 0 again once the last cell has been written).
C17Claim ==
    /\ \A c \in DOMAIN calls :
           calls[c].pc = "write" => calls[c].f < VGA_BUFFER_SIZE
    /\ (\A c \in DOMAIN calls : calls[c].pc = "idle")
           => FRAME < VGA_BUFFER_SIZE

\* neither element's output is an input or the output of the other
Independent(p) ==
    /\ p[1].output \notin ElementInputs(p[2]) \cup {p[2].output}
    /\ p[2].output \notin ElementInputs(p[1]) \cup {p[1].output}

\* both calls of execution r have returned or panicked
Finished(r) == \A t \in {1, 2} : runs[r].phase[t] \in {"done", "fault"}

RangeOf(S) == [k \in 1..MaxIndex |-> S[format_index(AccVar, k - 1)]]

\* C20: what get_n_to_m has read, and what it returns, are the values the
\* keys of its range held together when it took its lock, whatever set_n and
\* set_n_to_m steps run beside it; beside a set_n_to_m alone, the result is
\* the new bits up to some index and the old bits from there on.
C20Thm ==
    (rng # <<>> /\ rng.rd.pc \in {"loop", "done"}) =>
        /\ \A k \in 1..Len(rng.rd.out) : rng.rd.out[k] = RangeOf(rng.snap)[k]
        /\ rng.rd.pc = "loop" => State = rng.snap
        /\ rng.rd.pc = "done" =>
               /\ ret = RangeOf(rng.snap)
               /\ ~rng.single =>
                      \E j \in 0..MaxIndex :
                          ret = [k \in 1..MaxIndex |->
                                    IF k <= j THEN rng.wr.val[k]
                                    ELSE RangeOf(rng.old)[k]]

\* a read between the first and the second write of set_n_to_m returned the
\* new first bit and the old second bit, both unlike their counterparts
C20Witness ==
    /\ rng # <<>>
    /\ rng.rd.pc = "done"
    /\ ~rng.single
    /\ rng.wr.pc = "done"
    /\ ret[1] = rng.wr.val[1]
    /\ ret[1] # RangeOf(rng.old)[1]
    /\ ret[2] = RangeOf(rng.old)[2]
    /\ ret[2] # rng.wr.val[2]

====
